---------------------------- MODULE Spec2Model ----------------------------
(***************************************************************************)
(* Verification model of the deepfake-detection pipeline:                  *)
(*   - analyze_blink        (notebooks/models/blink_detector.py)           *)
(*   - analyze_headpose     (notebooks/models/level-3-headpose/)           *)
(*   - analyze_texture      (notebooks/models/level-4-texture/)            *)
(*   - analyze_video / process_dataset of the four families                *)
(*                          (notebooks/models/level-*/evaluate_*.py)       *)
(*   - run_detector / main  (notebooks/models/orchestrator.py)             *)
(*                                                                         *)
(* Numbers: EAR values, texture scores and confidences are kept in         *)
(* hundredths (0.25 is 25).  Quotients are kept exact as pairs <<n, d>>    *)
(* with d > 0 (the rational n/d); percentages are such pairs in percent.   *)
(***************************************************************************)
EXTENDS Integers, Sequences, FiniteSets, TLC

VARIABLES
    \* ---- analyze_blink ----
    b_pc,              \* "start" | "loop" | "after_loop" | "done"
    opened,            \* cap.isOpened()
    max_frames,        \* parameter max_frames
    frame_interval,    \* parameter frame_interval
    blink_count,
    counter,
    frame_count,
    processed_frames,
    ear_history,       \* deque(maxlen=5)
    b_result,          \* the returned dict, None before the return
    ear_seq,           \* history: EAR of every face frame so far
    b_last,            \* history: what the last loop iteration saw
    \* ---- process_dataset ----
    e_pc,              \* "collect" | "fake" | "real" | "metrics" | "done" | "returned" | "aborted"
    family,            \* which evaluate_*.py runs
    fake_dir, real_dir,            \* the two dataset directories on disk
    fake_videos, real_videos,      \* the collected video lists
    all_results,       \* list of verdicts with ground_truth
    outcomes,          \* history: the detector's raw outcome per verdict
    summary,           \* the computed summary, None before the metrics
    report,            \* the persisted JSON document, None while not written
    \* ---- orchestrator ----
    o_pc,              \* "collecting" | "unwinding" | "emitted" | "raised"
    task,              \* the four futures, in submission order
    files,             \* report files on disk: name -> "absent" | "stale" | "fresh"
    opened_file,       \* history: the file each task's fallback opened, None if none
    results,           \* main's results dict, as an insertion-ordered list of <<name, res>>
    next_future,       \* position of main's loop in the futures list
    completion,        \* history: the order in which the tasks completed
    printed,           \* the dict main printed, <<>> before
    \* ---- analyze_texture ----
    t_pc,              \* "loop" | "done"
    frame_id,
    scores,            \* one classifier score per face crop
    t_result,          \* the returned dict, None before the return
    \* ---- analyze_headpose ----
    h_pc,              \* "start" | "loop" | "after_loop" | "done"
    h_opened,          \* cap.isOpened()
    total_frames,
    pitch_vals, yaw_vals, roll_vals,
    h_result           \* the returned dict, None before the return

bvars == <<b_pc, opened, max_frames, frame_interval, blink_count, counter,
           frame_count, processed_frames, ear_history, b_result, ear_seq, b_last>>
evars == <<e_pc, family, fake_dir, real_dir, fake_videos, real_videos,
           all_results, outcomes, summary, report>>
ovars == <<o_pc, task, files, opened_file, results, next_future, completion, printed>>
tvars == <<t_pc, frame_id, scores, t_result>>
hvars == <<h_pc, h_opened, total_frames, pitch_vals, yaw_vals, roll_vals, h_result>>
vars == <<bvars, evars, ovars, tvars, hvars>>

\* Python's None: as a string where strings live (prediction, error, file names),
\* as a record where dicts live (detector results, summaries, reports)
None == "None"
Null == [null |-> TRUE]

(***************************************************************************)
(* Bounds of the model                                                     *)
(***************************************************************************)
MaxVideoLen == 6      \* decoded frames per video
MaxFramesCap == 6     \* largest max_frames tried
MaxInterval == 2      \* largest frame_interval tried
MaxVideos == 2        \* files per batch directory
MaxTexFrames == 11    \* decoded frames per video given to analyze_texture
MaxFaces == 2         \* faces the cascade finds in one frame
MaxPoseFrames == 4    \* decoded frames per video given to analyze_headpose

(***************************************************************************)
(* Exact arithmetic helpers                                                *)
(***************************************************************************)
RECURSIVE SumSeq(_)
SumSeq(s) == IF s = <<>> THEN 0 ELSE Head(s) + SumSeq(Tail(s))

RECURSIVE SumSq(_)
SumSq(s) == IF s = <<>> THEN 0 ELSE Head(s) * Head(s) + SumSq(Tail(s))

RatLt(a, b) == a[1] * b[2] < b[1] * a[2]
RatEq(a, b) == a[1] * b[2] = b[1] * a[2]
IsRat(a) == a[2] > 0

(***************************************************************************)
(* blink_detector.py                                                       *)
(***************************************************************************)
EAR_THRESHOLD == 25
CONSEC_FRAMES == 2
WindowCap == 5
AssumedFps == 30

\* EAR values a face frame may measure (hundredths)
EarValues == {18, 20, 25, 30}

\* (variant: a plain list instead of the deque)
ListAppend(d, x) == Append(d, x)

\* deque(maxlen=5).append
DequeAppend(d, x) ==
    IF Len(d) < WindowCap THEN Append(d, x) ELSE Append(Tail(d), x)

\* (variant: an open frame below CONSEC_FRAMES leaves the counter as it is)
BlinkStepNoReset(ear, cnt, blinks) ==
    IF ear < EAR_THRESHOLD
    THEN <<cnt + 1, blinks>>
    ELSE IF cnt >= CONSEC_FRAMES THEN <<0, blinks + 1>> ELSE <<cnt, blinks>>

\* the debounce step of one face frame: <<counter', blink_count'>>
BlinkStep(ear, cnt, blinks) ==
    IF ear < EAR_THRESHOLD
    THEN <<cnt + 1, blinks>>
    ELSE IF cnt >= CONSEC_FRAMES THEN <<0, blinks + 1>> ELSE <<0, blinks>>

\* (variant: the duration leaves frame_interval out)
BlinkRateNoInterval(blinks, processed, interval) ==
    IF processed > 0
    THEN <<blinks * AssumedFps * 60, processed>>
    ELSE <<0, 1>>

\* blink_rate_per_minute, as the rational blinks / ((processed*interval)/30) * 60
BlinkRate(blinks, processed, interval) ==
    IF processed * interval > 0
    THEN <<blinks * AssumedFps * 60, processed * interval>>
    ELSE <<0, 1>>

\* (variant: the rate tests are two independent ifs, the second one with its
\* comparison turned round)
BlinkReasonsTwoIfs(rate, hist) ==
    LET n == Len(hist)
        s == SumSeq(hist)
        q == SumSq(hist)
        r1 == (IF RatLt(rate, <<5, 1>>) THEN <<"low_blink_rate">> ELSE <<>>)
              \o (IF RatLt(rate, <<50, 1>>) THEN <<"high_blink_rate">> ELSE <<>>)
        r2 == IF 100 * (n * q - s * s) < 64 * n * n
              THEN <<"low_ear_variance">> ELSE <<>>
        r3 == IF s < 12 * n \/ s > 38 * n THEN <<"abnormal_ear">> ELSE <<>>
    IN r1 \o r2 \o r3

\* the reasons list built after the loop
BlinkReasons(rate, hist) ==
    LET n == Len(hist)
        s == SumSeq(hist)
        q == SumSq(hist)
        r1 == IF RatLt(rate, <<5, 1>>) THEN <<"low_blink_rate">>
              ELSE IF RatLt(<<50, 1>>, rate) THEN <<"high_blink_rate">>
              ELSE <<>>
        \* std_ear < 0.008: variance in hundredths^2 below 0.64
        r2 == IF 100 * (n * q - s * s) < 64 * n * n
              THEN <<"low_ear_variance">> ELSE <<>>
        \* avg_ear < 0.12 or avg_ear > 0.38
        r3 == IF s < 12 * n \/ s > 38 * n THEN <<"abnormal_ear">> ELSE <<>>
    IN r1 \o r2 \o r3

\* (variant: the failure test looks at processed_frames, not at the window)
BlinkResultByProcessed(blinks, processed, interval, hist) ==
    IF processed = 0
    THEN [success |-> FALSE, reason |-> "no_faces_detected"]
    ELSE LET rate == BlinkRate(blinks, processed, interval)
             reasons == BlinkReasons(rate, hist)
         IN [success |-> TRUE,
             blink_count |-> blinks,
             blink_rate_per_minute |-> rate,
             avg_ear |-> <<SumSeq(hist), Len(hist)>>,
             processed_frames |-> processed,
             suspicious |-> reasons # <<>>,
             reasons |-> reasons]

BlinkResult(blinks, processed, interval, hist) ==
    IF hist = <<>>
    THEN [success |-> FALSE, reason |-> "no_faces_detected"]
    ELSE LET rate == BlinkRate(blinks, processed, interval)
             reasons == BlinkReasons(rate, hist)
         IN [success |-> TRUE,
             blink_count |-> blinks,
             blink_rate_per_minute |-> rate,
             avg_ear |-> <<SumSeq(hist), Len(hist)>>,
             processed_frames |-> processed,
             suspicious |-> reasons # <<>>,
             reasons |-> reasons]

BlinkIdle ==
    /\ b_pc = "idle" /\ opened = FALSE /\ max_frames = 0 /\ frame_interval = 0
    /\ blink_count = 0 /\ counter = 0 /\ frame_count = 0 /\ processed_frames = 0
    /\ ear_history = <<>> /\ b_result = Null /\ ear_seq = <<>> /\ b_last = "none"

InitBlinkVars ==
    /\ b_pc = "start"
    /\ opened \in BOOLEAN
    /\ max_frames \in 1..MaxFramesCap
    /\ frame_interval \in 1..MaxInterval
    /\ blink_count = 0 /\ counter = 0 /\ frame_count = 0 /\ processed_frames = 0
    /\ ear_history = <<>> /\ b_result = Null /\ ear_seq = <<>> /\ b_last = "none"

\* cap = cv2.VideoCapture(...); if not cap.isOpened(): return failure
BlinkOpen ==
    /\ b_pc = "start"
    /\ IF opened
       THEN b_pc' = "loop" /\ b_result' = b_result
       ELSE /\ b_pc' = "done"
            /\ b_result' = [success |-> FALSE, reason |-> "cannot_open_video"]
    /\ UNCHANGED <<opened, max_frames, frame_interval, blink_count, counter,
                   frame_count, processed_frames, ear_history, ear_seq, b_last>>
    /\ UNCHANGED <<evars, ovars, tvars, hvars>>

\* while condition false: processed_frames reached max_frames
BlinkLoopExit ==
    /\ b_pc = "loop"
    /\ ~(processed_frames < max_frames)
    /\ b_pc' = "after_loop"
    /\ b_last' = "exit"
    /\ UNCHANGED <<opened, max_frames, frame_interval, blink_count, counter,
                   frame_count, processed_frames, ear_history, b_result, ear_seq>>
    /\ UNCHANGED <<evars, ovars, tvars, hvars>>

\* cap.read() returns ret = False: break
BlinkReadEnd ==
    /\ b_pc = "loop"
    /\ processed_frames < max_frames
    /\ b_pc' = "after_loop"
    /\ b_last' = "end"
    /\ UNCHANGED <<opened, max_frames, frame_interval, blink_count, counter,
                   frame_count, processed_frames, ear_history, b_result, ear_seq>>
    /\ UNCHANGED <<evars, ovars, tvars, hvars>>

\* a decoded frame whose index is no multiple of frame_interval: continue
BlinkSkipFrame ==
    /\ b_pc = "loop"
    /\ processed_frames < max_frames
    /\ frame_count < MaxVideoLen
    /\ (frame_count + 1) % frame_interval # 0
    /\ frame_count' = frame_count + 1
    /\ b_last' = "skipped"
    /\ UNCHANGED <<b_pc, opened, max_frames, frame_interval, blink_count, counter,
                   processed_frames, ear_history, b_result, ear_seq>>
    /\ UNCHANGED <<evars, ovars, tvars, hvars>>

\* (variant: a sampled frame without a face resets the debounce counter)
BlinkNoFaceResets ==
    /\ b_pc = "loop"
    /\ processed_frames < max_frames
    /\ frame_count < MaxVideoLen
    /\ (frame_count + 1) % frame_interval = 0
    /\ frame_count' = frame_count + 1
    /\ processed_frames' = processed_frames + 1
    /\ counter' = 0
    /\ b_last' = "noface"
    /\ UNCHANGED <<b_pc, opened, max_frames, frame_interval, blink_count,
                   ear_history, b_result, ear_seq>>
    /\ UNCHANGED <<evars, ovars, tvars, hvars>>

\* a sampled frame in which face_mesh finds no face
BlinkNoFace ==
    /\ b_pc = "loop"
    /\ processed_frames < max_frames
    /\ frame_count < MaxVideoLen
    /\ (frame_count + 1) % frame_interval = 0
    /\ frame_count' = frame_count + 1
    /\ processed_frames' = processed_frames + 1
    /\ b_last' = "noface"
    /\ UNCHANGED <<b_pc, opened, max_frames, frame_interval, blink_count, counter,
                   ear_history, b_result, ear_seq>>
    /\ UNCHANGED <<evars, ovars, tvars, hvars>>

\* (variant: the loop does not test processed_frames < max_frames)
BlinkFaceUnbounded ==
    /\ b_pc = "loop"
    /\ frame_count < MaxVideoLen
    /\ (frame_count + 1) % frame_interval = 0
    /\ \E ear \in EarValues :
         LET st == BlinkStep(ear, counter, blink_count) IN
         /\ ear_history' = DequeAppend(ear_history, ear)
         /\ ear_seq' = Append(ear_seq, ear)
         /\ counter' = st[1]
         /\ blink_count' = st[2]
         /\ b_last' = IF ear < EAR_THRESHOLD THEN "closed" ELSE "open"
    /\ frame_count' = frame_count + 1
    /\ processed_frames' = processed_frames + 1
    /\ UNCHANGED <<b_pc, opened, max_frames, frame_interval, b_result>>
    /\ UNCHANGED <<evars, ovars, tvars, hvars>>

\* a sampled frame with a face whose averaged EAR is ear
BlinkFace ==
    /\ b_pc = "loop"
    /\ processed_frames < max_frames
    /\ frame_count < MaxVideoLen
    /\ (frame_count + 1) % frame_interval = 0
    /\ \E ear \in EarValues :
         LET st == BlinkStep(ear, counter, blink_count) IN
         /\ ear_history' = DequeAppend(ear_history, ear)
         /\ ear_seq' = Append(ear_seq, ear)
         /\ counter' = st[1]
         /\ blink_count' = st[2]
         /\ b_last' = IF ear < EAR_THRESHOLD THEN "closed" ELSE "open"
    /\ frame_count' = frame_count + 1
    /\ processed_frames' = processed_frames + 1
    /\ UNCHANGED <<b_pc, opened, max_frames, frame_interval, b_result>>
    /\ UNCHANGED <<evars, ovars, tvars, hvars>>

\* (variant: a closing run that is still open at the end counts as a blink)
BlinkFinishCountsOpenRun ==
    /\ b_pc = "after_loop"
    /\ b_pc' = "done"
    /\ b_result' = BlinkResult(blink_count + (IF counter >= CONSEC_FRAMES THEN 1 ELSE 0),
                               processed_frames, frame_interval, ear_history)
    /\ UNCHANGED <<opened, max_frames, frame_interval, blink_count, counter,
                   frame_count, processed_frames, ear_history, ear_seq, b_last>>
    /\ UNCHANGED <<evars, ovars, tvars, hvars>>

\* cap.release() and everything after the loop
BlinkFinish ==
    /\ b_pc = "after_loop"
    /\ b_pc' = "done"
    /\ b_result' = BlinkResult(blink_count, processed_frames, frame_interval, ear_history)
    /\ UNCHANGED <<opened, max_frames, frame_interval, blink_count, counter,
                   frame_count, processed_frames, ear_history, ear_seq, b_last>>
    /\ UNCHANGED <<evars, ovars, tvars, hvars>>

NextBlink ==
    \/ BlinkOpen
    \/ BlinkLoopExit
    \/ BlinkReadEnd
    \/ BlinkSkipFrame
    \/ BlinkNoFace
    \/ BlinkFace
    \/ BlinkFinish

(***************************************************************************)
(* Detector results the evaluators consume                                 *)
(***************************************************************************)
\* the families, in the order of the orchestrator's SCRIPTS dict
SCRIPTS == <<"emotion", "blink", "headpose", "texture">>

\* what a call of a detector does: it raises, or it returns a result dict
Raised == [raised |-> TRUE, result |-> Null]
Returned(r) == [raised |-> FALSE, result |-> r]

\* analyze_blink results: cannot_open_video, and BlinkResult on
\* (blink_count, processed_frames, ear_history) samples at frame_interval 3
BlinkSamples ==
    { <<0, 10, <<>>>>,
      <<0, 100, <<30, 28, 30>>>>,
      <<3, 90, <<30, 20, 18, 30, 31>>>> }
BlinkOutcomes ==
    {Raised, Returned([success |-> FALSE, reason |-> "cannot_open_video"])}
    \cup {Returned(BlinkResult(x[1], x[2], 3, x[3])) : x \in BlinkSamples}

\* analyze_headpose results
HeadposeOutcomes ==
    {Raised,
     Returned([success |-> FALSE, reason |-> "cannot_open_video"]),
     Returned([success |-> FALSE, reason |-> "no_face_detected"]),
     Returned([success |-> TRUE, suspicious |-> TRUE,
               reasons |-> <<"too_smooth_motion">>]),
     Returned([success |-> TRUE, suspicious |-> FALSE, reasons |-> <<>>])}

\* analyze_emotion results (emotion_detector.py is not part of the sources)
EmotionOutcomes ==
    {Raised,
     Returned([success |-> FALSE, reason |-> "no_faces_detected"]),
     Returned([success |-> TRUE, suspicious |-> TRUE,
               reasons |-> <<"low_emotion_diversity">>]),
     Returned([success |-> TRUE, suspicious |-> FALSE, reasons |-> <<>>])}

\* texture_detector.py
THRESHOLD == 50

\* (variant: the comparison with the threshold is inverted)
RECURSIVE CountBelow(_, _)
CountBelow(s, t) ==
    IF s = <<>> THEN 0
    ELSE (IF Head(s) < t THEN 1 ELSE 0) + CountBelow(Tail(s), t)

RECURSIVE CountAbove(_, _)
CountAbove(s, t) ==
    IF s = <<>> THEN 0
    ELSE (IF Head(s) > t THEN 1 ELSE 0) + CountAbove(Tail(s), t)

\* the result analyze_texture builds from the scores it collected
TextureResult(sc) ==
    IF Len(sc) = 0
    THEN [success |-> FALSE, reason |-> "no_faces_detected",
          frames_analyzed |-> 0, fake_ratio |-> <<0, 1>>, avg_score |-> <<0, 1>>]
    ELSE [success |-> TRUE, reason |-> None,
          frames_analyzed |-> Len(sc),
          fake_ratio |-> <<CountAbove(sc, THRESHOLD), Len(sc)>>,
          avg_score |-> <<SumSeq(sc), Len(sc)>>]

\* the result analyze_texture returns when anything inside its try raises
TextureException ==
    [success |-> FALSE, reason |-> "exception",
     frames_analyzed |-> 0, fake_ratio |-> <<0, 1>>, avg_score |-> <<0, 1>>]

\* score sequences of a video (classifier scores in hundredths)
TextureSamples == { <<>>, <<40>>, <<90, 70>>, <<100>> }
TextureOutcomes ==
    {Returned(TextureException)} \cup {Returned(TextureResult(x)) : x \in TextureSamples}

Outcomes(f) ==
    CASE f = "emotion" -> EmotionOutcomes
      [] f = "blink" -> BlinkOutcomes
      [] f = "headpose" -> HeadposeOutcomes
      [] f = "texture" -> TextureOutcomes

(***************************************************************************)
(* analyze_texture (level-4-texture/texture_detector.py)                   *)
(***************************************************************************)
FRAME_SKIP == 5

\* classifier scores in hundredths
ScoreValues == {40, 50, 90}

\* detectMultiScale on one frame: the scores of the faces it returns
FaceScores == UNION {[1..n -> ScoreValues] : n \in 0..MaxFaces}

TextureIdle ==
    /\ t_pc = "idle" /\ frame_id = 0 /\ scores = <<>> /\ t_result = Null

InitTextureVars ==
    /\ t_pc = "loop" /\ frame_id = 0 /\ scores = <<>> /\ t_result = Null

\* a frame with frame_id % FRAME_SKIP == 0: every detected face is scored
TextureSampledFrame ==
    /\ t_pc = "loop" /\ frame_id < MaxTexFrames
    /\ frame_id % FRAME_SKIP = 0
    /\ \E faces \in FaceScores : scores' = scores \o faces
    /\ frame_id' = frame_id + 1
    /\ UNCHANGED <<t_pc, t_result>>
    /\ UNCHANGED <<bvars, evars, ovars, hvars>>

\* any other frame is only counted
TextureSkippedFrame ==
    /\ t_pc = "loop" /\ frame_id < MaxTexFrames
    /\ frame_id % FRAME_SKIP # 0
    /\ frame_id' = frame_id + 1
    /\ UNCHANGED <<t_pc, scores, t_result>>
    /\ UNCHANGED <<bvars, evars, ovars, hvars>>

\* cap.read() fails (end of the video, or a capture that never opened)
TextureReadEnd ==
    /\ t_pc = "loop"
    /\ t_result' = TextureResult(scores)
    /\ t_pc' = "done"
    /\ UNCHANGED <<frame_id, scores>>
    /\ UNCHANGED <<bvars, evars, ovars, hvars>>

\* anything inside the try raises
TextureRaise ==
    /\ t_pc = "loop"
    /\ t_result' = TextureException
    /\ t_pc' = "done"
    /\ UNCHANGED <<frame_id, scores>>
    /\ UNCHANGED <<bvars, evars, ovars, hvars>>

NextTexture ==
    \/ TextureSampledFrame
    \/ TextureSkippedFrame
    \/ TextureReadEnd
    \/ TextureRaise

(***************************************************************************)
(* analyze_headpose (level-3-headpose/headpose_detector.py)                *)
(*                                                                         *)
(* Angles are kept in thousandths, so variances are in millionths.  A      *)
(* float that numpy computes as 0/0 (the mean or variance of an empty      *)
(* array) is the pair <<0, 0>>: NaN, for which every comparison is false.  *)
(* The debug frame export writes images only and is left out.              *)
(***************************************************************************)
\* speed_variance < 1e-6 and speed_variance > 0.01, in millionths
TooSmoothBelow == 1
JitteryAbove == 10000

\* <<pitch, yaw, roll>> a face frame may measure: collinear poses, so that
\* every distance between two of them is a whole number
PoseValues == {<<3 * k, 4 * k, 0>> : k \in {0, 1, 22, 100}}

\* a float comparison: false as soon as one side is NaN
FloatLt(a, b) == IsRat(a) /\ IsRat(b) /\ RatLt(a, b)

\* (variant: the variance of an empty sequence is 0 instead of nan)
VarEmptyIsZero(s) ==
    IF Len(s) = 0 THEN <<0, 1>>
    ELSE <<Len(s) * SumSq(s) - SumSeq(s) * SumSeq(s), Len(s) * Len(s)>>

\* np.var / np.mean of a sequence of numbers
Var(s) == <<Len(s) * SumSq(s) - SumSeq(s) * SumSeq(s), Len(s) * Len(s)>>
Mean(s) == <<SumSeq(s), Len(s)>>

\* np.linalg.norm of a difference vector (exact on PoseValues)
Norm(d) ==
    LET sq == d[1] * d[1] + d[2] * d[2] + d[3] * d[3]
        Abs(x) == IF x < 0 THEN -x ELSE x
    IN CHOOSE n \in 0..(Abs(d[1]) + Abs(d[2]) + Abs(d[3])) : n * n = sq

\* speed = norm(diff(stack([pitch, yaw, roll]))): one entry per consecutive pair
Speed(p, y, r) ==
    [i \in 1..(Len(p) - 1) |->
        Norm(<<p[i + 1] - p[i], y[i + 1] - y[i], r[i + 1] - r[i]>>)]

\* (variant: the two thresholds are swapped)
HeadposeHeuristicSwapped(speed_variance) ==
    LET smooth == FloatLt(speed_variance, <<JitteryAbove, 1>>)
        jitter == FloatLt(<<TooSmoothBelow, 1>>, speed_variance)
    IN [suspicious |-> smooth \/ jitter,
        reasons |-> (IF smooth THEN <<"too_smooth_motion">> ELSE <<>>)
                    \o (IF jitter THEN <<"jittery_motion">> ELSE <<>>)]

\* the heuristic: two independent ifs, each sets the flag and appends its reason
HeadposeHeuristic(speed_variance) ==
    LET smooth == FloatLt(speed_variance, <<TooSmoothBelow, 1>>)
        jitter == FloatLt(<<JitteryAbove, 1>>, speed_variance)
    IN [suspicious |-> smooth \/ jitter,
        reasons |-> (IF smooth THEN <<"too_smooth_motion">> ELSE <<>>)
                    \o (IF jitter THEN <<"jittery_motion">> ELSE <<>>)]

\* what analyze_headpose returns after the loop
HeadposeResult(p, y, r, total) ==
    IF Len(p) = 0
    THEN [success |-> FALSE, reason |-> "no_face_detected"]
    ELSE LET speed == Speed(p, y, r)
             h == HeadposeHeuristic(Var(speed))
             vp == Var(p)
             vy == Var(y)
             vr == Var(r)
         IN [success |-> TRUE,
             frames_analyzed |-> Len(p),
             total_video_frames |-> total,
             avg_pitch |-> Mean(p),
             avg_yaw |-> Mean(y),
             avg_roll |-> Mean(r),
             pose_variance |-> <<vp[1] + vy[1] + vr[1], vp[2]>>,
             avg_speed |-> Mean(speed),
             speed_variance |-> Var(speed),
             suspicious |-> h.suspicious,
             reasons |-> h.reasons]

HeadposeIdle ==
    /\ h_pc = "idle" /\ h_opened = FALSE /\ total_frames = 0
    /\ pitch_vals = <<>> /\ yaw_vals = <<>> /\ roll_vals = <<>> /\ h_result = Null

InitHeadposeVars ==
    /\ h_pc = "start" /\ h_opened \in BOOLEAN /\ total_frames = 0
    /\ pitch_vals = <<>> /\ yaw_vals = <<>> /\ roll_vals = <<>> /\ h_result = Null

\* cap.isOpened() check
HeadposeOpen ==
    /\ h_pc = "start"
    /\ IF h_opened
       THEN h_pc' = "loop" /\ h_result' = h_result
       ELSE /\ h_pc' = "done"
            /\ h_result' = [success |-> FALSE, reason |-> "cannot_open_video"]
    /\ UNCHANGED <<h_opened, total_frames, pitch_vals, yaw_vals, roll_vals>>
    /\ UNCHANGED <<bvars, evars, ovars, tvars>>

\* cap.read() fails: break
HeadposeReadEnd ==
    /\ h_pc = "loop"
    /\ h_pc' = "after_loop"
    /\ UNCHANGED <<h_opened, total_frames, pitch_vals, yaw_vals, roll_vals, h_result>>
    /\ UNCHANGED <<bvars, evars, ovars, tvars>>

\* a frame without face landmarks: counted, then continue
HeadposeNoFace ==
    /\ h_pc = "loop" /\ total_frames < MaxPoseFrames
    /\ total_frames' = total_frames + 1
    /\ UNCHANGED <<h_pc, h_opened, pitch_vals, yaw_vals, roll_vals, h_result>>
    /\ UNCHANGED <<bvars, evars, ovars, tvars>>

\* a frame with landmarks: the pose of multi_face_landmarks[0] is appended
HeadposeFace ==
    /\ h_pc = "loop" /\ total_frames < MaxPoseFrames
    /\ total_frames' = total_frames + 1
    /\ \E pose \in PoseValues :
        /\ pitch_vals' = Append(pitch_vals, pose[1])
        /\ yaw_vals' = Append(yaw_vals, pose[2])
        /\ roll_vals' = Append(roll_vals, pose[3])
    /\ UNCHANGED <<h_pc, h_opened, h_result>>
    /\ UNCHANGED <<bvars, evars, ovars, tvars>>

\* the code after the loop, up to the return
HeadposeFinish ==
    /\ h_pc = "after_loop"
    /\ h_result' = HeadposeResult(pitch_vals, yaw_vals, roll_vals, total_frames)
    /\ h_pc' = "done"
    /\ UNCHANGED <<h_opened, total_frames, pitch_vals, yaw_vals, roll_vals>>
    /\ UNCHANGED <<bvars, evars, ovars, tvars>>

NextHeadpose ==
    \/ HeadposeOpen
    \/ HeadposeReadEnd
    \/ HeadposeNoFace
    \/ HeadposeFace
    \/ HeadposeFinish

(***************************************************************************)
(* analyze_video of the four families                                      *)
(***************************************************************************)
\* the dict analyze_video starts from; raised: the call itself raises
NewVerdict ==
    [detector |-> Null, prediction |-> None, confidence |-> <<0, 100>>,
     error |-> None, raised |-> FALSE]

\* (variant: no try/except around the detector call)
FlagVerdictNoCatch(o, fakeConf, realConf) ==
    IF o.raised THEN [NewVerdict EXCEPT !.raised = TRUE]
    ELSE IF o.result.success
    THEN [NewVerdict EXCEPT
            !.detector = o.result,
            !.prediction = IF o.result.suspicious THEN "FAKE" ELSE "REAL",
            !.confidence = IF o.result.suspicious THEN <<fakeConf, 100>>
                                                  ELSE <<realConf, 100>>]
    ELSE NewVerdict

\* (variant: the success flag is not looked at)
FlagVerdictNoSuccessCheck(o, fakeConf, realConf) ==
    IF o.raised THEN [NewVerdict EXCEPT !.error = "exception"]
    ELSE IF o.result.success /\ o.result.suspicious
    THEN [NewVerdict EXCEPT !.detector = o.result, !.prediction = "FAKE",
                            !.confidence = <<fakeConf, 100>>]
    ELSE [NewVerdict EXCEPT !.detector = o.result, !.prediction = "REAL",
                            !.confidence = <<realConf, 100>>]

\* blink, headpose: try: r = detector(); if r["success"]: ... except: error
FlagVerdict(o, fakeConf, realConf) ==
    IF o.raised THEN [NewVerdict EXCEPT !.error = "exception"]
    ELSE IF o.result.success
    THEN [NewVerdict EXCEPT
            !.detector = o.result,
            !.prediction = IF o.result.suspicious THEN "FAKE" ELSE "REAL",
            !.confidence = IF o.result.suspicious THEN <<fakeConf, 100>>
                                                  ELSE <<realConf, 100>>]
    ELSE NewVerdict

analyze_video_blink(o) == FlagVerdict(o, 80, 90)

analyze_video_headpose(o) == FlagVerdict(o, 80, 90)

\* (variant: emotion uses the confidences of blink and headpose)
EmotionVerdictSharedConf(o) == FlagVerdict(o, 80, 90)

\* emotion: a failed result also records its reason as the error
analyze_video_emotion(o) ==
    IF o.raised THEN [NewVerdict EXCEPT !.error = "exception"]
    ELSE IF ~o.result.success
    THEN [NewVerdict EXCEPT !.error = o.result.reason]
    ELSE [NewVerdict EXCEPT
            !.detector = o.result,
            !.prediction = IF o.result.suspicious THEN "FAKE" ELSE "REAL",
            !.confidence = IF o.result.suspicious THEN <<85, 100>> ELSE <<80, 100>>]

\* (variant: avg_score <= 0.8 is FAKE)
TextureVerdictInclusive(o) ==
    IF o.raised THEN [NewVerdict EXCEPT !.error = "exception"]
    ELSE IF ~o.result.success
    THEN [NewVerdict EXCEPT !.error = o.result.reason]
    ELSE LET a == o.result.avg_score IN
         IF RatLt(a, <<80, 1>>) \/ RatEq(a, <<80, 1>>)
         THEN [NewVerdict EXCEPT !.detector = o.result, !.prediction = "FAKE",
                                 !.confidence = <<a[1], 100 * a[2]>>]
         ELSE [NewVerdict EXCEPT !.detector = o.result, !.prediction = "REAL",
                                 !.confidence = <<100 * a[2] - a[1], 100 * a[2]>>]

\* texture: avg_score < 0.8 is FAKE with confidence avg_score, else REAL with
\* confidence 1 - avg_score (avg_score = <<sum, n>> in hundredths)
analyze_video_texture(o) ==
    IF o.raised THEN [NewVerdict EXCEPT !.error = "exception"]
    ELSE IF ~o.result.success
    THEN [NewVerdict EXCEPT !.error = o.result.reason]
    ELSE LET a == o.result.avg_score IN
         IF RatLt(a, <<80, 1>>)
         THEN [NewVerdict EXCEPT !.detector = o.result, !.prediction = "FAKE",
                                 !.confidence = <<a[1], 100 * a[2]>>]
         ELSE [NewVerdict EXCEPT !.detector = o.result, !.prediction = "REAL",
                                 !.confidence = <<100 * a[2] - a[1], 100 * a[2]>>]

analyze_video(f, o) ==
    CASE f = "emotion" -> analyze_video_emotion(o)
      [] f = "blink" -> analyze_video_blink(o)
      [] f = "headpose" -> analyze_video_headpose(o)
      [] f = "texture" -> analyze_video_texture(o)

(***************************************************************************)
(* process_dataset of the four families                                    *)
(***************************************************************************)
\* the file each evaluate_*.py passes as output_file under __main__
OutputFile(f) ==
    CASE f = "emotion" -> "emotion_evaluation.json"
      [] f = "blink" -> "blink_results.json"
      [] f = "headpose" -> "headpose_results.json"
      [] f = "texture" -> "texture_evaluation.json"

\* File names are sequences of characters.  The names a dataset directory
\* may hold: "B.AVI", "a.mp4", "a.mp4.txt", "amp4"
DatasetFiles ==
    { <<"B", ".", "A", "V", "I">>,
      <<"a", ".", "m", "p", "4">>,
      <<"a", ".", "m", "p", "4", ".", "t", "x", "t">>,
      <<"a", "m", "p", "4">> }

\* ord(c) of the characters in use
CodePoint(c) ==
    CASE c = "." -> 46 [] c = "4" -> 52
      [] c = "A" -> 65 [] c = "B" -> 66 [] c = "I" -> 73 [] c = "M" -> 77
      [] c = "V" -> 86
      [] c = "a" -> 97 [] c = "b" -> 98 [] c = "f" -> 102 [] c = "i" -> 105
      [] c = "k" -> 107 [] c = "l" -> 108 [] c = "m" -> 109 [] c = "o" -> 111
      [] c = "p" -> 112 [] c = "t" -> 116 [] c = "v" -> 118 [] c = "x" -> 120

\* str.lower()
LowerChar(c) ==
    CASE c = "A" -> "a" [] c = "B" -> "b" [] c = "I" -> "i" [] c = "M" -> "m"
      [] c = "V" -> "v" [] OTHER -> c
Lower(f) == [i \in DOMAIN f |-> LowerChar(f[i])]

\* str.endswith
EndsWith(f, ext) ==
    Len(f) >= Len(ext) /\ SubSeq(f, Len(f) - Len(ext) + 1, Len(f)) = ext

\* the order of Python strings: lexicographic by code point
RECURSIVE StrLt(_, _)
StrLt(a, b) ==
    IF b = <<>> THEN FALSE
    ELSE IF a = <<>> THEN TRUE
    ELSE IF Head(a) # Head(b) THEN CodePoint(Head(a)) < CodePoint(Head(b))
    ELSE StrLt(Tail(a), Tail(b))

\* sorted(os.listdir(dir))
RECURSIVE Sorted(_)
Sorted(S) ==
    IF S = {} THEN <<>>
    ELSE LET least == CHOOSE x \in S : \A y \in S \ {x} : StrLt(x, y)
         IN <<least>> \o Sorted(S \ {least})

video_extensions ==
    << <<".", "m", "p", "4">>, <<".", "a", "v", "i">>, <<".", "m", "o", "v">>,
       <<".", "m", "k", "v">>, <<".", "f", "l", "v">> >>

\* (variant: the name is matched as it is spelled)
IsVideoCaseSensitive(f) ==
    \E i \in DOMAIN video_extensions : EndsWith(f, video_extensions[i])

\* any(f.lower().endswith(ext) for ext in video_extensions)
IsVideo(f) ==
    \E i \in DOMAIN video_extensions : EndsWith(Lower(f), video_extensions[i])

\* [os.path.join(folder, f) for f in sorted(os.listdir(folder)) if ...]
\* if os.path.exists(folder) else []
collect_videos(folder, dir) ==
    IF ~dir.exists THEN <<>>
    ELSE LET names == SelectSeq(Sorted(dir.files), IsVideo)
         IN [i \in DOMAIN names |-> [folder |-> folder, name |-> names[i]]]

\* what a dataset directory may be: missing, or holding up to MaxVideos files
Directories ==
    {[exists |-> FALSE, files |-> {}]}
    \cup {[exists |-> TRUE, files |-> S] :
            S \in {T \in SUBSET DatasetFiles : Cardinality(T) <= MaxVideos}}

\* emotion, blink, headpose: if total == 0: return (texture has no such test)
ReturnsEarly(f, total) == f # "texture" /\ total = 0

\* (variant: the chain ends in a plain else)
CellElse(gt, pred) ==
    IF gt = "FAKE" /\ pred = "FAKE" THEN "TP"
    ELSE IF gt = "REAL" /\ pred = "REAL" THEN "TN"
    ELSE IF gt = "REAL" /\ pred = "FAKE" THEN "FP"
    ELSE "FN"

\* the if/elif chain of the metrics loop: the cell a verdict is counted in
Cell(gt, pred) ==
    IF gt = "FAKE" /\ pred = "FAKE" THEN "TP"
    ELSE IF gt = "REAL" /\ pred = "REAL" THEN "TN"
    ELSE IF gt = "REAL" /\ pred = "FAKE" THEN "FP"
    ELSE IF gt = "FAKE" /\ pred = "REAL" THEN "FN"
    ELSE "none"

\* (variant: no "if not pred: continue", and the chain ends in a plain else)
RECURSIVE MetricsLoopNoSkip(_, _)
MetricsLoopNoSkip(rs, acc) ==
    IF rs = <<>> THEN acc
    ELSE LET r == Head(rs)
             c == CellElse(r.ground_truth, r.prediction)
         IN MetricsLoopNoSkip(Tail(rs),
                   [acc EXCEPT
                      !.correct = @ + (IF r.prediction = r.ground_truth THEN 1 ELSE 0),
                      !.TP = @ + (IF c = "TP" THEN 1 ELSE 0),
                      !.TN = @ + (IF c = "TN" THEN 1 ELSE 0),
                      !.FP = @ + (IF c = "FP" THEN 1 ELSE 0),
                      !.FN = @ + (IF c = "FN" THEN 1 ELSE 0)])

\* (variant: correct is incremented inside the TP branch only)
RECURSIVE MetricsLoopCorrectInTP(_, _)
MetricsLoopCorrectInTP(rs, acc) ==
    IF rs = <<>> THEN acc
    ELSE LET r == Head(rs)
             c == Cell(r.ground_truth, r.prediction)
         IN IF r.prediction = None
            THEN MetricsLoopCorrectInTP(Tail(rs), acc)
            ELSE MetricsLoopCorrectInTP(Tail(rs),
                   [acc EXCEPT
                      !.correct = @ + (IF c = "TP" THEN 1 ELSE 0),
                      !.TP = @ + (IF c = "TP" THEN 1 ELSE 0),
                      !.TN = @ + (IF c = "TN" THEN 1 ELSE 0),
                      !.FP = @ + (IF c = "FP" THEN 1 ELSE 0),
                      !.FN = @ + (IF c = "FN" THEN 1 ELSE 0)])

\* the metrics loop of emotion and texture: [TP, TN, FP, FN, correct]
RECURSIVE MetricsLoop(_, _)
MetricsLoop(rs, acc) ==
    IF rs = <<>> THEN acc
    ELSE LET r == Head(rs)
             c == Cell(r.ground_truth, r.prediction)
         IN IF r.prediction = None
            THEN MetricsLoop(Tail(rs), acc)
            ELSE MetricsLoop(Tail(rs),
                   [acc EXCEPT
                      !.correct = @ + (IF r.prediction = r.ground_truth THEN 1 ELSE 0),
                      !.TP = @ + (IF c = "TP" THEN 1 ELSE 0),
                      !.TN = @ + (IF c = "TN" THEN 1 ELSE 0),
                      !.FP = @ + (IF c = "FP" THEN 1 ELSE 0),
                      !.FN = @ + (IF c = "FN" THEN 1 ELSE 0)])

\* (variant: no test of the denominator)
PctUnguarded(n, d) == <<n * 100, d>>

\* (n / d * 100) if d else 0
Pct(n, d) == IF d # 0 THEN <<n * 100, d>> ELSE <<0, 1>>

\* (2 * precision * recall / (precision + recall)) if (precision + recall) else 0
F1(p, r) ==
    IF p[1] * r[2] + r[1] * p[2] # 0
    THEN <<2 * p[1] * r[1], p[1] * r[2] + r[1] * p[2]>>
    ELSE <<0, 1>>

\* emotion, texture: the summary with the confusion matrix
MatrixSummary(rs) ==
    LET m == MetricsLoop(rs, [TP |-> 0, TN |-> 0, FP |-> 0, FN |-> 0, correct |-> 0])
        total_valid == m.TP + m.TN + m.FP + m.FN
        precision == Pct(m.TP, m.TP + m.FP)
        recall == Pct(m.TP, m.TP + m.FN)
    IN [accuracy |-> Pct(m.correct, total_valid),
        precision |-> precision,
        recall |-> recall,
        f1_score |-> F1(precision, recall),
        confusion_matrix |-> [TP |-> m.TP, TN |-> m.TN, FP |-> m.FP, FN |-> m.FN],
        correct |-> m.correct]

\* sum(1 for r in all_results if r.get("prediction") == r.get("ground_truth"))
RECURSIVE CountCorrect(_)
CountCorrect(rs) ==
    IF rs = <<>> THEN 0
    ELSE (IF Head(rs).prediction = Head(rs).ground_truth THEN 1 ELSE 0)
         + CountCorrect(Tail(rs))

\* blink, headpose: accuracy over len(all_results)
AccuracySummary(rs) ==
    [total_videos |-> Len(rs),
     accuracy |-> Pct(CountCorrect(rs), Len(rs)),
     correct |-> CountCorrect(rs)]

HasMatrix(f) == f \in {"emotion", "texture"}

Summary(f, rs) == IF HasMatrix(f) THEN MatrixSummary(rs) ELSE AccuracySummary(rs)

InitEvalVars ==
    /\ e_pc = "collect"
    /\ family \in {SCRIPTS[i] : i \in 1..Len(SCRIPTS)}
    /\ fake_dir \in Directories
    /\ real_dir \in Directories
    /\ fake_videos = <<>> /\ real_videos = <<>> /\ all_results = <<>>
    /\ outcomes = <<>> /\ summary = Null /\ report = Null

\* the listing of the two directories, and the early return on an empty dataset
EvalCollect ==
    /\ e_pc = "collect"
    /\ fake_videos' = collect_videos("fake", fake_dir)
    /\ real_videos' = collect_videos("real", real_dir)
    /\ e_pc' = IF ReturnsEarly(family, Len(fake_videos') + Len(real_videos'))
               THEN "returned" ELSE "batches"
    /\ UNCHANGED <<family, fake_dir, real_dir, all_results, outcomes, summary, report>>
    /\ UNCHANGED <<bvars, ovars, tvars, hvars>>

\* one iteration of a batch loop: analyze_video, ground_truth, append
EvalVideo(gt, video_path) ==
    \E o \in Outcomes(family) :
        LET v == analyze_video(family, o) IN
        IF v.raised
        THEN /\ e_pc' = "aborted"
             /\ UNCHANGED <<all_results, outcomes>>
        ELSE /\ e_pc' = e_pc
             /\ all_results' = Append(all_results,
                    [video_path |-> video_path,
                     detector |-> v.detector,
                     prediction |-> v.prediction,
                     confidence |-> v.confidence,
                     error |-> v.error,
                     ground_truth |-> gt])
             /\ outcomes' = Append(outcomes, o)

EvalFake ==
    /\ e_pc = "batches"
    /\ Len(all_results) < Len(fake_videos)
    /\ EvalVideo("FAKE", fake_videos[Len(all_results) + 1])
    /\ UNCHANGED <<family, fake_dir, real_dir, fake_videos, real_videos, summary, report>>
    /\ UNCHANGED <<bvars, ovars, tvars, hvars>>

EvalReal ==
    /\ e_pc = "batches"
    /\ Len(all_results) >= Len(fake_videos)
    /\ Len(all_results) < Len(fake_videos) + Len(real_videos)
    /\ EvalVideo("REAL", real_videos[Len(all_results) - Len(fake_videos) + 1])
    /\ UNCHANGED <<family, fake_dir, real_dir, fake_videos, real_videos, summary, report>>
    /\ UNCHANGED <<bvars, ovars, tvars, hvars>>

\* the "summary" entry of the dict that is dumped
OutputSummary(f, m) ==
    IF HasMatrix(f)
    THEN [accuracy |-> m.accuracy, precision |-> m.precision, recall |-> m.recall,
          f1_score |-> m.f1_score, confusion_matrix |-> m.confusion_matrix]
    ELSE [total_videos |-> m.total_videos, accuracy |-> m.accuracy]

\* the metrics, and json.dump of the report to output_file
EvalMetrics ==
    /\ e_pc = "batches"
    /\ Len(all_results) = Len(fake_videos) + Len(real_videos)
    /\ summary' = Summary(family, all_results)
    /\ report' = [file |-> OutputFile(family),
                  summary |-> OutputSummary(family, summary'),
                  results |-> all_results]
    /\ e_pc' = "done"
    /\ UNCHANGED <<family, fake_dir, real_dir, fake_videos, real_videos,
                   all_results, outcomes>>
    /\ UNCHANGED <<bvars, ovars, tvars, hvars>>

NextEval ==
    \/ EvalCollect
    \/ EvalFake
    \/ EvalReal
    \/ EvalMetrics

(***************************************************************************)
(* orchestrator.py                                                         *)
(***************************************************************************)
\* the file run_detector opens when stdout is no JSON
FallbackFile(name) ==
    CASE name = "emotion" -> "emotion_evaluation.json"
      [] name = "blink" -> "blink_evaluation.json"
      [] name = "headpose" -> "headpose_evaluation.json"
      [] name = "texture" -> "texture_evaluation.json"

FileNames ==
    {OutputFile(SCRIPTS[i]) : i \in 1..Len(SCRIPTS)}
    \cup {FallbackFile(SCRIPTS[i]) : i \in 1..Len(SCRIPTS)}

\* what subprocess.run([python_exec, script], check=True) can do:
\*   oserror  the interpreter cannot be started: subprocess.run raises OSError
\*   nonzero  the script exits with a non-zero code: CalledProcessError
\*   json     exit 0, stdout is a JSON document
\*   text     exit 0, stdout is no JSON document
\* persisted: the script wrote its report to its output file before exiting
\* (with exit 0 every script does, but for the early return on an empty
\* dataset, which texture does not have)
ProcOutcomes(name) ==
    {[kind |-> "oserror", persisted |-> FALSE],
     [kind |-> "nonzero", persisted |-> FALSE],
     [kind |-> "json", persisted |-> TRUE],
     [kind |-> "text", persisted |-> TRUE]}
    \cup (IF ReturnsEarly(name, 0)
          THEN {[kind |-> "text", persisted |-> FALSE]} ELSE {})

\* the files after the script ran
FilesAfter(fs, name, proc) ==
    IF proc.persisted THEN [fs EXCEPT ![OutputFile(name)] = "fresh"] ELSE fs

\* json.load of a report file
LoadFile(fs, fname) == [source |-> "file", file |-> fname, written |-> fs[fname]]

\* run_detector: what the task returns or raises, given the disk after the
\* script ran.  Only CalledProcessError and JSONDecodeError are caught.
run_detector(name, proc, fs) ==
    CASE proc.kind = "oserror" ->
           [raised |-> TRUE, res |-> Null, opened |-> None]
      [] proc.kind = "nonzero" ->
           [raised |-> FALSE, res |-> Null, opened |-> None]
      [] proc.kind = "json" ->
           [raised |-> FALSE, res |-> [source |-> "stdout", file |-> None,
                                       written |-> "fresh"],
            opened |-> None]
      [] proc.kind = "text" ->
           LET fname == FallbackFile(name) IN
           [raised |-> FALSE,
            res |-> IF fs[fname] = "absent" THEN Null ELSE LoadFile(fs, fname),
            opened |-> fname]

\* results[name] = res on an insertion-ordered dict
RECURSIVE DictSet(_, _, _)
DictSet(d, k, v) ==
    IF d = <<>> THEN <<[key |-> k, value |-> v]>>
    ELSE IF Head(d).key = k THEN <<[key |-> k, value |-> v]>> \o Tail(d)
    ELSE <<Head(d)>> \o DictSet(Tail(d), k, v)

Keys(d) == [i \in 1..Len(d) |-> d[i].key]

\* (variant: the results are taken as the tasks complete)
AsCompleted(nf, tk) ==
    IF nf <= Len(SCRIPTS)
    THEN {i \in 1..Len(SCRIPTS) : tk[i].state # "running" /\ ~tk[i].collected}
    ELSE {}

\* (variant: main takes a future's result without waiting for its task)
NextFutureNoWait(nf, tk) ==
    IF nf <= Len(SCRIPTS) THEN {nf} ELSE {}

\* for f in futures: f.result() -- the future main's loop takes next, once done
NextFuture(nf, tk) ==
    IF nf <= Len(SCRIPTS) /\ tk[nf].state # "running" THEN {nf} ELSE {}

InitOrchVars ==
    /\ o_pc = "collecting"
    /\ task = [i \in 1..Len(SCRIPTS) |->
                 [name |-> SCRIPTS[i], state |-> "running", collected |-> FALSE,
                  proc |-> "none", res |-> Null]]
    /\ files \in {[f \in FileNames |-> "absent"], [f \in FileNames |-> "stale"]}
    /\ opened_file = [i \in 1..Len(SCRIPTS) |-> None]
    /\ results = <<>>
    /\ next_future = 1
    /\ completion = <<>>
    /\ printed = <<>>

\* one pool thread runs run_detector(name, py, script) to its end
OrchTask(i) ==
    /\ task[i].state = "running"
    /\ \E proc \in ProcOutcomes(SCRIPTS[i]) :
         LET fs == FilesAfter(files, SCRIPTS[i], proc)
             r == run_detector(SCRIPTS[i], proc, fs)
         IN /\ files' = fs
            /\ task' = [task EXCEPT ![i].state = IF r.raised THEN "raised" ELSE "done",
                                    ![i].proc = proc.kind,
                                    ![i].res = r.res]
            /\ opened_file' = [opened_file EXCEPT ![i] = r.opened]
    /\ completion' = Append(completion, i)
    /\ UNCHANGED <<o_pc, results, next_future, printed>>
    /\ UNCHANGED <<bvars, evars, tvars, hvars>>

OrchTaskAny == \E i \in 1..Len(SCRIPTS) : OrchTask(i)

\* name, res = f.result(); results[name] = res -- f.result() re-raises what
\* the task raised, which leaves the loop
OrchCollect ==
    /\ o_pc = "collecting"
    /\ \E i \in NextFuture(next_future, task) :
         IF task[i].state = "raised"
         THEN /\ o_pc' = "unwinding"
              /\ UNCHANGED <<task, results, next_future>>
         ELSE /\ results' = DictSet(results, task[i].name, task[i].res)
              /\ task' = [task EXCEPT ![i].collected = TRUE]
              /\ next_future' = next_future + 1
              /\ o_pc' = o_pc
    /\ UNCHANGED <<files, opened_file, completion, printed>>
    /\ UNCHANGED <<bvars, evars, tvars, hvars>>

\* the with block ends (shutdown waits for every task), then the report is printed
OrchEmit ==
    /\ o_pc = "collecting"
    /\ next_future > Len(SCRIPTS)
    /\ \A i \in 1..Len(SCRIPTS) : task[i].state # "running"
    /\ printed' = results
    /\ o_pc' = "emitted"
    /\ UNCHANGED <<task, files, opened_file, results, next_future, completion>>
    /\ UNCHANGED <<bvars, evars, tvars, hvars>>

\* the exception leaves the with block (shutdown waits for every task) and main
OrchRaise ==
    /\ o_pc = "unwinding"
    /\ \A i \in 1..Len(SCRIPTS) : task[i].state # "running"
    /\ o_pc' = "raised"
    /\ UNCHANGED <<task, files, opened_file, results, next_future, completion, printed>>
    /\ UNCHANGED <<bvars, evars, tvars, hvars>>

NextOrch ==
    \/ OrchTaskAny
    \/ OrchCollect
    \/ OrchEmit
    \/ OrchRaise

EvalIdle ==
    /\ e_pc = "idle" /\ family = None
    /\ fake_dir = [exists |-> FALSE, files |-> {}]
    /\ real_dir = [exists |-> FALSE, files |-> {}]
    /\ fake_videos = <<>> /\ real_videos = <<>> /\ all_results = <<>>
    /\ outcomes = <<>> /\ summary = Null /\ report = Null

OrchIdle ==
    /\ o_pc = "idle" /\ task = <<>> /\ files = <<>> /\ opened_file = <<>>
    /\ results = <<>> /\ next_future = 0 /\ completion = <<>> /\ printed = <<>>

InitBlink == InitBlinkVars /\ EvalIdle /\ OrchIdle /\ TextureIdle /\ HeadposeIdle

SpecBlink == InitBlink /\ [][NextBlink]_vars

\* the interpreter keeps executing the function until it returns
SpecBlinkLive == InitBlink /\ [][NextBlink]_vars /\ WF_vars(NextBlink)

InitEval == InitEvalVars /\ BlinkIdle /\ OrchIdle /\ TextureIdle /\ HeadposeIdle

SpecEval == InitEval /\ [][NextEval]_vars

InitOrch == InitOrchVars /\ BlinkIdle /\ EvalIdle /\ TextureIdle /\ HeadposeIdle

SpecOrch == InitOrch /\ [][NextOrch]_vars

InitTexture == InitTextureVars /\ BlinkIdle /\ EvalIdle /\ OrchIdle /\ HeadposeIdle

SpecTexture == InitTexture /\ [][NextTexture]_vars

InitHeadpose == InitHeadposeVars /\ BlinkIdle /\ EvalIdle /\ OrchIdle /\ TextureIdle

SpecHeadpose == InitHeadpose /\ [][NextHeadpose]_vars

\* one call of one of the three detectors
InitDetectors == InitBlink \/ InitTexture \/ InitHeadpose

NextDetectors == NextBlink \/ NextTexture \/ NextHeadpose

SpecDetectors == InitDetectors /\ [][NextDetectors]_vars

(***************************************************************************)
(* Claims about analyze_blink                                              *)
(***************************************************************************)
FaceStep == Len(ear_seq') = Len(ear_seq) + 1
NewEar == ear_seq'[Len(ear_seq')]

\* C1: blink_count changes only on a face frame with EAR >= EAR_THRESHOLD that
\* finds counter >= CONSEC_FRAMES, and then by exactly one; every face frame
\* with EAR >= EAR_THRESHOLD leaves counter at 0; the EAR history
\* [0.30,0.20,0.18,0.30] counts exactly 1 blink and [0.30,0.20,0.30] counts 0.
C1_BlinkOnlyOnDebouncedOpen ==
    /\ [][ /\ blink_count' = IF FaceStep /\ NewEar >= EAR_THRESHOLD
                                            /\ counter >= CONSEC_FRAMES
                             THEN blink_count + 1 ELSE blink_count
           /\ (FaceStep /\ NewEar >= EAR_THRESHOLD) => counter' = 0 ]_vars
    /\ [](ear_seq = <<30, 20, 18, 30>> => blink_count = 1)
    /\ [](ear_seq = <<30, 20, 30>> => blink_count = 0)

C1_Witness ==
    /\ ear_seq = <<30, 20, 18, 30>> /\ blink_count = 1 /\ counter = 0
    /\ b_pc = "done"

(***************************************************************************)
(* Claims about analyze_video and process_dataset                          *)
(***************************************************************************)
Indices(rs) == DOMAIN rs
NumValid(rs) == Cardinality({i \in Indices(rs) : rs[i].prediction # None})
NumCorrect(rs) ==
    Cardinality({i \in Indices(rs) : rs[i].prediction # None
                                     /\ rs[i].prediction = rs[i].ground_truth})
Finished == e_pc = "done"
InPercentRange(x) == IsRat(x) /\ 0 <= x[1] /\ x[1] <= 100 * x[2]
IsZero(x) == IsRat(x) /\ x[1] = 0

\* C5: in every family, the accuracy of a finished run is
\* correct / (number of verdicts with a non-none prediction) x 100
\* (0 when there is none), so failed videos do not lower it.
C5_AccuracyOverValidVerdicts ==
    Finished =>
        RatEq(summary.accuracy,
              IF NumValid(all_results) = 0 THEN <<0, 1>>
              ELSE <<100 * NumCorrect(all_results), NumValid(all_results)>>)

\* C6: in the families that compute the confusion matrix, after the metrics
\* loop TP+TN+FP+FN <= number of verdicts, with equality iff no verdict has
\* prediction none; the four cells count exactly the verdicts with a
\* prediction, and every verdict, none or not, is in the persisted results.
C6_MatrixIdentity ==
    (Finished /\ HasMatrix(family)) =>
        LET m == summary.confusion_matrix
            cells == m.TP + m.TN + m.FP + m.FN
        IN /\ cells <= Len(all_results)
           /\ (cells = Len(all_results)
                 <=> \A i \in Indices(all_results) : all_results[i].prediction # None)
           /\ cells = NumValid(all_results)
           /\ report.results = all_results
           /\ Len(report.results) = Len(fake_videos) + Len(real_videos)

C6_Witness ==
    /\ Finished /\ HasMatrix(family)
    /\ \E i, j \in Indices(report.results) :
          /\ report.results[i].prediction = None
          /\ report.results[i].ground_truth = "FAKE"
          /\ report.results[j].prediction # None
    /\ LET m == summary.confusion_matrix
       IN m.TP + m.TN + m.FP + m.FN < Len(all_results)

\* C7: the accuracy, precision and recall of a finished run lie in [0,100],
\* and each of them, and f1, is 0 when its denominator is 0.
C7_MetricsInRange ==
    Finished =>
        /\ InPercentRange(summary.accuracy)
        /\ NumValid(all_results) = 0 => IsZero(summary.accuracy)
        /\ HasMatrix(family) =>
             LET m == summary.confusion_matrix IN
             /\ InPercentRange(summary.precision)
             /\ InPercentRange(summary.recall)
             /\ IsRat(summary.f1_score) /\ summary.f1_score[1] >= 0
             /\ m.TP + m.FP = 0 => IsZero(summary.precision)
             /\ m.TP + m.FN = 0 => IsZero(summary.recall)
             /\ (IsZero(summary.precision) /\ IsZero(summary.recall))
                  => IsZero(summary.f1_score)

\* an all-REAL batch without a FAKE prediction: precision is 0
C7_Witness ==
    /\ Finished /\ HasMatrix(family)
    /\ Len(all_results) = 2
    /\ \A i \in Indices(all_results) :
          all_results[i].ground_truth = "REAL" /\ all_results[i].prediction = "REAL"
    /\ IsZero(summary.precision) /\ IsZero(summary.recall) /\ IsZero(summary.f1_score)
    /\ RatEq(summary.accuracy, <<100, 1>>)

\* C8: every run of process_dataset ends with a persisted report, also when
\* every video failed and when a directory is missing or holds no video.
C8_EveryRunEmitsReport ==
    /\ e_pc # "aborted"
    /\ e_pc \in {"done", "returned"} => report # Null

\* C9: a detector call that raises is turned into a verdict with prediction
\* none; the batch is never aborted, every video of both batches gets its
\* verdict, and the metrics and the report are produced.
C9_ExceptionNeverAbortsBatch ==
    /\ e_pc # "aborted"
    /\ Len(outcomes) = Len(all_results)
    /\ \A i \in Indices(all_results) :
          outcomes[i].raised =>
              all_results[i].prediction = None /\ all_results[i].error # None
    /\ Finished =>
          /\ Len(all_results) = Cardinality({f \in fake_dir.files : IsVideo(f)})
                                 + Cardinality({f \in real_dir.files : IsVideo(f)})
          /\ summary # Null
          /\ report # Null /\ report.results = all_results

C9_Witness ==
    /\ Finished
    /\ \E i, j, k \in Indices(all_results) :
          /\ i < j /\ j < k
          /\ outcomes[i].raised /\ all_results[i].ground_truth = "FAKE"
          /\ all_results[j].prediction # None
          /\ all_results[k].ground_truth = "REAL" /\ all_results[k].prediction # None

InUnitRange(x) == IsRat(x) /\ 0 <= x[1] /\ x[1] <= x[2]

\* C10: a verdict has prediction none iff the detector call gave no result
\* or a result with success = false; its confidence lies in [0,1] and is 0
\* when the prediction is none.
C10_PredictionNoneIffFailed ==
    \A i \in Indices(all_results) :
        LET v == all_results[i]
            o == outcomes[i]
        IN /\ v.prediction = None <=> (o.raised \/ ~o.result.success)
           /\ v.prediction = None <=> v.detector = Null
           /\ v.prediction # None => v.detector = o.result
           /\ InUnitRange(v.confidence)
           /\ v.prediction = None => v.confidence[1] = 0

C10_Witness ==
    \E i, j, k \in Indices(all_results) :
        /\ outcomes[i].raised /\ all_results[i].prediction = None
        /\ ~outcomes[j].raised /\ ~outcomes[j].result.success
        /\ all_results[j].prediction = None
        /\ ~outcomes[k].raised /\ outcomes[k].result.success
        /\ all_results[k].prediction = "FAKE"
        /\ all_results[k].confidence = <<80, 100>>

(***************************************************************************)
(* Claims about the orchestrator                                           *)
(***************************************************************************)
TaskIds == 1..Len(SCRIPTS)
\* the task failed: it raised, the script exited non-zero, or its output
\* could be read neither from stdout nor from the fallback file
TaskFailed(i) ==
    task[i].state = "raised" \/ (task[i].state = "done" /\ task[i].res = Null)
Entry(d, k) == CHOOSE j \in 1..Len(d) : d[j].key = k

\* C2: whatever way a family task fails (non-zero exit, unreadable output,
\* any exception), main still completes and prints a report in which that
\* family is none and every other family has its data.
C2_FailureIsolated ==
    o_pc \in {"emitted", "raised"} =>
        /\ o_pc = "emitted"
        /\ Len(printed) = Len(SCRIPTS)
        /\ \A i \in TaskIds :
              /\ \E j \in 1..Len(printed) : printed[j].key = SCRIPTS[i]
              /\ printed[Entry(printed, SCRIPTS[i])].value
                   = (IF TaskFailed(i) THEN Null ELSE task[i].res)

\* C3: for each family, the file run_detector opens when stdout is no JSON
\* is the file that the family's evaluation script writes.
C3_FallbackReadsPersistedReport ==
    \A i \in TaskIds :
        opened_file[i] # None => opened_file[i] = OutputFile(SCRIPTS[i])

\* C4: the keys of main's results dict are always a prefix of emotion,
\* blink, headpose, texture, and the printed report lists exactly these
\* four in this order, whatever the order in which the tasks completed.
C4_FixedKeyOrder ==
    /\ Keys(results) = SubSeq(SCRIPTS, 1, Len(results))
    /\ o_pc = "emitted" => Keys(printed) = SCRIPTS

\* the tasks completed in the reverse of the submission order
C4_Witness ==
    /\ o_pc = "emitted"
    /\ completion = <<4, 3, 2, 1>>
    /\ \A i \in TaskIds : printed[i].value # Null

(***************************************************************************)
(* Claims about the detector results                                       *)
(***************************************************************************)
\* the keys of a result dict that carry measurements
MetricKeys(r) == DOMAIN r \ {"success", "reason", "suspicious", "reasons"}

DetectorResultOk(r) ==
    /\ ~r.success =>
          /\ MetricKeys(r) = {}
          /\ ~("suspicious" \in DOMAIN r /\ r.suspicious)
    /\ {"suspicious", "reasons"} \subseteq DOMAIN r =>
          (r.reasons # <<>> <=> r.suspicious)

\* C11: a detector result with success = false carries no metrics and is not
\* suspicious, and its reasons are non-empty exactly when it is suspicious
\* (here: for every result analyze_texture returns)
C11_FailedResultHasNoMetrics ==
    t_pc = "done" => DetectorResultOk(t_result)

\* the same statement for analyze_headpose
C11_HeadposeResultOk ==
    h_pc = "done" => DetectorResultOk(h_result)

\* the same statement for analyze_blink
C11_BlinkResultOk ==
    b_pc = "done" => DetectorResultOk(b_result)

(***************************************************************************)
(* Claims about the wrappers' decision rules                               *)
(***************************************************************************)
Succeeded(i) == ~outcomes[i].raised /\ outcomes[i].result.success

\* C12: on a successful detector result the blink and headpose wrappers
\* predict FAKE with confidence 0.8 iff the result is suspicious and REAL with
\* confidence 0.9 otherwise; the emotion wrapper predicts FAKE with 0.85 iff
\* suspicious and REAL with 0.80 otherwise.
C12_FlagWrappersRule ==
    \A i \in Indices(all_results) :
        (family \in {"blink", "headpose", "emotion"} /\ Succeeded(i)) =>
            LET v == all_results[i]
                sus == outcomes[i].result.suspicious
                fakeConf == IF family = "emotion" THEN 85 ELSE 80
                realConf == IF family = "emotion" THEN 80 ELSE 90
            IN /\ v.prediction = "FAKE" <=> sus
               /\ v.prediction = "REAL" <=> ~sus
               /\ sus => RatEq(v.confidence, <<fakeConf, 100>>)
               /\ ~sus => RatEq(v.confidence, <<realConf, 100>>)

C12_Witness ==
    /\ family = "emotion"
    /\ \E i, j \in Indices(all_results) :
        /\ Succeeded(i) /\ outcomes[i].result.suspicious
        /\ all_results[i].prediction = "FAKE"
        /\ all_results[i].confidence = <<85, 100>>
        /\ Succeeded(j) /\ ~outcomes[j].result.suspicious
        /\ all_results[j].prediction = "REAL"
        /\ all_results[j].confidence = <<80, 100>>

\* C13: on a successful result the texture wrapper predicts FAKE iff
\* avg_score < 0.8 (an avg_score of exactly 0.8 is REAL); the confidence is
\* avg_score when FAKE and 1 - avg_score when REAL.
C13_TextureRule ==
    \A i \in Indices(all_results) :
        (family = "texture" /\ Succeeded(i)) =>
            LET v == all_results[i]
                a == outcomes[i].result.avg_score
                \* the confidence in hundredths, like avg_score
                c == <<100 * v.confidence[1], v.confidence[2]>>
            IN /\ v.prediction = "FAKE" <=> RatLt(a, <<80, 1>>)
               /\ v.prediction = "REAL" <=> ~RatLt(a, <<80, 1>>)
               /\ RatEq(a, <<80, 1>>) =>
                     v.prediction = "REAL" /\ RatEq(c, <<20, 1>>)
               /\ v.prediction = "FAKE" => RatEq(c, a)
               /\ v.prediction = "REAL" => RatEq(c, <<100 * a[2] - a[1], a[2]>>)

C13_Witness ==
    /\ family = "texture"
    /\ \E i, j \in Indices(all_results) :
        /\ Succeeded(i) /\ RatEq(outcomes[i].result.avg_score, <<80, 1>>)
        /\ all_results[i].prediction = "REAL"
        /\ Succeeded(j) /\ RatLt(outcomes[j].result.avg_score, <<80, 1>>)
        /\ all_results[j].prediction = "FAKE"

\* C14: a blink run over one FAKE-labeled video whose result has a low blink
\* rate (only low_blink_rate, predicted FAKE, 0.8) and one REAL-labeled video
\* with blink_rate_per_minute = 20 (no reasons, predicted REAL, 0.9) ends with
\* accuracy = 100%, TP=1, TN=1, FP=0, FN=0 and precision = recall = f1 = 100%
\* in the summary.
C14_EndToEndBlink ==
    (/\ Finished /\ family = "blink" /\ Len(all_results) = 2
     /\ all_results[1].ground_truth = "FAKE" /\ Succeeded(1)
     /\ RatLt(outcomes[1].result.blink_rate_per_minute, <<5, 1>>)
     /\ outcomes[1].result.reasons = <<"low_blink_rate">>
     /\ all_results[2].ground_truth = "REAL" /\ Succeeded(2)
     /\ RatEq(outcomes[2].result.blink_rate_per_minute, <<20, 1>>)
     /\ outcomes[2].result.reasons = <<>>)
    =>
    /\ all_results[1].prediction = "FAKE"
    /\ all_results[1].confidence = <<80, 100>>
    /\ all_results[2].prediction = "REAL"
    /\ all_results[2].confidence = <<90, 100>>
    /\ RatEq(report.summary.accuracy, <<100, 1>>)
    /\ {"confusion_matrix", "precision", "recall", "f1_score"} \subseteq DOMAIN report.summary
    /\ report.summary.confusion_matrix = [TP |-> 1, TN |-> 1, FP |-> 0, FN |-> 0]
    /\ RatEq(report.summary.precision, <<100, 1>>)
    /\ RatEq(report.summary.recall, <<100, 1>>)
    /\ RatEq(report.summary.f1_score, <<100, 1>>)

\* the part of C14 that the blink evaluator does compute
C14_AccuracyOnly ==
    (/\ Finished /\ family = "blink" /\ Len(all_results) = 2
     /\ all_results[1].ground_truth = "FAKE" /\ Succeeded(1)
     /\ outcomes[1].result.reasons = <<"low_blink_rate">>
     /\ all_results[2].ground_truth = "REAL" /\ Succeeded(2)
     /\ outcomes[2].result.reasons = <<>>)
    =>
    /\ all_results[1].prediction = "FAKE"
    /\ all_results[1].confidence = <<80, 100>>
    /\ all_results[2].prediction = "REAL"
    /\ all_results[2].confidence = <<90, 100>>
    /\ RatEq(report.summary.accuracy, <<100, 1>>)
    /\ DOMAIN report.summary = {"total_videos", "accuracy"}

(***************************************************************************)
(* Claims about the batches of process_dataset                             *)
(***************************************************************************)
\* the names of DatasetFiles that end, in any spelling, in a video extension
VideoNames ==
    { <<"B", ".", "A", "V", "I">>,
      <<"a", ".", "m", "p", "4">> }

\* the verdicts that were produced for file f of a folder
VerdictsFor(folder, f) ==
    {i \in Indices(all_results) :
        all_results[i].video_path = [folder |-> folder, name |-> f]}

BatchLabel(folder) == IF folder = "fake" THEN "FAKE" ELSE "REAL"
Folder(folder) == IF folder = "fake" THEN fake_dir ELSE real_dir

\* C15: process_dataset produces exactly one labeled verdict per file whose
\* name ends case-insensitively in .mp4/.avi/.mov/.mkv/.flv and none for any
\* other file; every FAKE-batch verdict precedes every REAL-batch verdict, and
\* within a batch the verdicts are in lexicographic filename order.
C15_OneVerdictPerVideoInOrder ==
    /\ Finished =>
          \A folder \in {"fake", "real"} : \A f \in DatasetFiles :
              /\ Cardinality(VerdictsFor(folder, f))
                    = (IF f \in Folder(folder).files /\ f \in VideoNames THEN 1 ELSE 0)
              /\ \A i \in VerdictsFor(folder, f) :
                    all_results[i].ground_truth = BatchLabel(folder)
    /\ \A i \in Indices(all_results) :
          /\ all_results[i].video_path.folder \in {"fake", "real"}
          /\ all_results[i].video_path.name \in DatasetFiles
    /\ \A i, j \in Indices(all_results) :
          i < j =>
              /\ all_results[i].ground_truth = "REAL"
                    => all_results[j].ground_truth = "REAL"
              /\ all_results[i].ground_truth = all_results[j].ground_truth
                    => StrLt(all_results[i].video_path.name,
                             all_results[j].video_path.name)

C15_Witness ==
    /\ Finished
    /\ fake_dir.files = { <<"a", ".", "m", "p", "4", ".", "t", "x", "t">>,
                          <<"a", ".", "m", "p", "4">> }
    /\ real_dir.files = { <<"a", ".", "m", "p", "4">>, <<"B", ".", "A", "V", "I">> }
    /\ Len(all_results) = 3
    /\ all_results[1].video_path = [folder |-> "fake", name |-> <<"a", ".", "m", "p", "4">>]
    /\ all_results[2].video_path = [folder |-> "real", name |-> <<"B", ".", "A", "V", "I">>]
    /\ all_results[3].video_path = [folder |-> "real", name |-> <<"a", ".", "m", "p", "4">>]

(***************************************************************************)
(* Claims about the detectors' frame loops                                 *)
(***************************************************************************)
\* C16: no detector tracks multiple faces: for every frame it examines a
\* detector adds at most one measurement to its accumulator
\* (here: analyze_texture and its scores list)
C16_AtMostOneFacePerFrame ==
    [][Len(scores') <= Len(scores) + 1]_vars

\* the same statement for analyze_blink and its EAR measurements
C16_BlinkOneFacePerFrame ==
    [][Len(ear_seq') <= Len(ear_seq) + 1]_vars

\* the same statement for analyze_headpose and its pose lists
C16_HeadposeOneFacePerFrame ==
    [][/\ Len(pitch_vals') <= Len(pitch_vals) + 1
       /\ Len(yaw_vals') <= Len(yaw_vals) + 1
       /\ Len(roll_vals') <= Len(roll_vals) + 1]_vars

(***************************************************************************)
(* Claims about the orchestrator's collector                               *)
(***************************************************************************)
\* a step that writes the results mapping: it is main's loop taking the next
\* future, the task behind it has returned, and its result is what is stored
CollectorWrite ==
    \E i \in TaskIds :
        /\ i = next_future /\ next_future' = next_future + 1
        /\ task[i].state = "done"
        /\ results' = Append(results, [key |-> task[i].name, value |-> task[i].res])
        /\ \A j \in TaskIds : /\ task'[j].state = task[j].state
                              /\ task'[j].res = task[j].res

\* C17: the results mapping is written only by the single collector and only
\* with the result of a task that has fully completed, and the combined
\* report is emitted only after all four tasks have completed.
C17_SingleCollectorJoinAll ==
    /\ [][results' # results => CollectorWrite]_vars
    /\ [](\A j \in 1..Len(results) :
              \E i \in TaskIds :
                  /\ task[i].name = results[j].key
                  /\ task[i].state = "done"
                  /\ task[i].res = results[j].value)
    /\ [](o_pc = "emitted" =>
              /\ \A i \in TaskIds : task[i].state = "done" /\ task[i].collected
              /\ Len(printed) = Len(SCRIPTS)
              /\ printed = results)

C17_Witness ==
    /\ o_pc = "collecting"
    /\ Len(results) = 2
    /\ results[2].key = "blink" /\ results[2].value # Null
    /\ task[3].state = "running"
    /\ task[4].state = "done"

(***************************************************************************)
(* Claims about the texture aggregate                                      *)
(***************************************************************************)
RatLe(a, b) == a[1] * b[2] <= b[1] * a[2]
FakeRatio(sc) == TextureResult(sc).fake_ratio

\* C18: fake_ratio (the fraction of scores above THRESHOLD) does not decrease
\* when one more score above THRESHOLD is appended to the scores.
C18_FakeRatioMonotone ==
    \A x \in ScoreValues :
        x > THRESHOLD =>
            /\ IsRat(FakeRatio(scores)) /\ IsRat(FakeRatio(Append(scores, x)))
            /\ RatLe(FakeRatio(scores), FakeRatio(Append(scores, x)))

C18_Witness ==
    /\ t_pc = "done" /\ t_result.success
    /\ Len(scores) = 3
    /\ scores[1] > THRESHOLD /\ scores[2] < THRESHOLD /\ scores[3] > THRESHOLD
    /\ t_result.fake_ratio = <<2, 3>>
    /\ RatLt(FakeRatio(SubSeq(scores, 1, 2)), t_result.fake_ratio)

(***************************************************************************)
(* Claims about the detectors' reasons                                     *)
(***************************************************************************)
Has(seq, x) == \E i \in DOMAIN seq : seq[i] = x

\* C19: the reasons of an analyze_blink result never contain both
\* low_blink_rate and high_blink_rate; low_blink_rate stands for a rate below
\* 5 and high_blink_rate for a rate above 50.
C19_LowAndHighRateExclusive ==
    (b_pc = "done" /\ b_result.success) =>
        LET rate == b_result.blink_rate_per_minute
            reasons == b_result.reasons
        IN /\ ~(Has(reasons, "low_blink_rate") /\ Has(reasons, "high_blink_rate"))
           /\ Has(reasons, "low_blink_rate") <=> RatLt(rate, <<5, 1>>)
           /\ Has(reasons, "high_blink_rate") <=> RatLt(<<50, 1>>, rate)

C19_Witness ==
    /\ b_pc = "done" /\ b_result.success
    /\ Has(b_result.reasons, "high_blink_rate")
    /\ b_result.blink_count = 1

\* C20: an analyze_headpose result reports at most one of too_smooth_motion
\* (speed_variance < 1e-6) and jittery_motion (speed_variance > 0.01).
C20_SmoothAndJitteryExclusive ==
    (h_pc = "done" /\ h_result.success) =>
        LET sv == h_result.speed_variance
            reasons == h_result.reasons
        IN /\ ~(Has(reasons, "too_smooth_motion") /\ Has(reasons, "jittery_motion"))
           /\ Has(reasons, "too_smooth_motion")
                 <=> (IsRat(sv) /\ RatLt(sv, <<TooSmoothBelow, 1>>))
           /\ Has(reasons, "jittery_motion")
                 <=> (IsRat(sv) /\ RatLt(<<JitteryAbove, 1>>, sv))
           /\ Len(reasons) <= 1

C20_Witness ==
    /\ h_pc = "done" /\ h_result.success
    /\ h_result.reasons = <<"jittery_motion">>
    /\ h_result.frames_analyzed = 3

C21_TextureWitness ==
    /\ t_pc = "done" /\ frame_id = 6 /\ scores = <<>>
    /\ ~t_result.success /\ t_result.reason = "no_faces_detected"

(***************************************************************************)
(* Claims about the frame loop of analyze_blink                            *)
(***************************************************************************)
\* the step decodes a frame whose 1-based index is a multiple of frame_interval
SampledStep ==
    frame_count' = frame_count + 1 /\ frame_count' % frame_interval = 0
\* the step touches what the examination of a frame touches
ExaminesFrame ==
    \/ processed_frames' # processed_frames
    \/ ear_seq' # ear_seq \/ ear_history' # ear_history
    \/ counter' # counter \/ blink_count' # blink_count

\* C22: analyze_blink examines only decoded frames whose 1-based index is a
\* multiple of frame_interval, counts every such frame (with or without a
\* face) in processed_frames, keeps processed_frames <= max_frames at every
\* step, and its frame loop terminates for every finite video.
C22_SamplingBudgetTermination ==
    /\ [][ /\ ExaminesFrame => SampledStep
           /\ SampledStep => processed_frames' = processed_frames + 1
           /\ ~SampledStep => processed_frames' = processed_frames ]_vars
    /\ [](processed_frames <= max_frames)
    /\ [](processed_frames * frame_interval <= frame_count)
    /\ <>(b_pc = "done")

C22_Witness ==
    /\ b_pc = "done" /\ b_last = "exit"
    /\ max_frames = 2 /\ frame_interval = 2
    /\ processed_frames = 2 /\ frame_count = 4

\* the last min(k, Len(s)) entries of s, in order
LastN(s, k) ==
    SubSeq(s, Len(s) - (IF Len(s) < k THEN Len(s) ELSE k) + 1, Len(s))

\* C23: at every point of analyze_blink ear_history holds exactly the EAR
\* values of the most recent min(5, n) face frames in arrival order, and
\* avg_ear and the tests behind low_ear_variance and abnormal_ear are
\* computed over that window only, not over the full history.
C23_RollingWindow ==
    /\ ear_history = LastN(ear_seq, 5)
    /\ (b_pc = "done" /\ b_result.success) =>
          LET w == LastN(ear_seq, 5)
              n == Len(w)
              sum == SumSeq(w)
          IN /\ RatEq(b_result.avg_ear, <<sum, n>>)
             \* std_ear < 0.008 in hundredths: variance below 0.64
             /\ Has(b_result.reasons, "low_ear_variance")
                   <=> 100 * (n * SumSq(w) - sum * sum) < 64 * n * n
             /\ Has(b_result.reasons, "abnormal_ear")
                   <=> (sum < 12 * n \/ sum > 38 * n)

\* the first of six face frames has left the window: the window is constant,
\* the full history is not
C23_Witness ==
    /\ b_pc = "done" /\ b_result.success
    /\ ear_seq = <<18, 30, 30, 30, 30, 30>>
    /\ ear_history = <<30, 30, 30, 30, 30>>
    /\ Has(b_result.reasons, "low_ear_variance")
    /\ b_result.avg_ear = <<150, 5>>

\* C24: on every successful run blink_rate_per_minute =
\* blink_count / ((processed_frames x frame_interval) / 30) x 60, where
\* processed_frames counts every sampled frame, also those without a face;
\* the duration is > 0 on success, so the fallback to rate 0 is never taken.
C24_BlinkRateFormula ==
    (b_pc = "done" /\ b_result.success) =>
        LET rate == b_result.blink_rate_per_minute IN
        /\ processed_frames = frame_count \div frame_interval
        /\ processed_frames >= Len(ear_seq)
        /\ b_result.processed_frames = processed_frames
        /\ b_result.blink_count = blink_count
        /\ processed_frames * frame_interval > 0
        \* rate * (processed_frames * frame_interval) = blink_count * 30 * 60
        /\ IsRat(rate)
        /\ rate[1] * (processed_frames * frame_interval)
              = blink_count * 30 * 60 * rate[2]

C24_Witness ==
    /\ b_pc = "done" /\ b_result.success
    /\ frame_interval = 2 /\ frame_count = 6
    /\ processed_frames = 3 /\ ear_seq = <<20, 30>>
    /\ blink_count = 0 /\ counter = 0

\* a run with a blink and a sampled frame without a face
C24_WitnessNoFace ==
    /\ b_pc = "done" /\ b_result.success
    /\ frame_interval = 1 /\ processed_frames = 4 /\ Len(ear_seq) = 3
    /\ b_result.blink_count = 1
    /\ b_result.blink_rate_per_minute = <<1800, 4>>

\* <<counter, blink_count>> after the face frames with the EARs of s, and of
\* nothing else
RECURSIVE Debounce(_)
Debounce(s) ==
    IF s = <<>> THEN <<0, 0>>
    ELSE LET before == Debounce(SubSeq(s, 1, Len(s) - 1))
             ear == s[Len(s)]
         IN IF ear < 25 THEN <<before[1] + 1, before[2]>>
            ELSE <<0, before[2] + (IF before[1] >= 2 THEN 1 ELSE 0)>>

\* C25: a sampled frame without a face leaves counter, blink_count and the
\* rolling window as they are and only increments processed_frames; so
\* counter and blink_count depend on the face frames alone, and closed-eye
\* frames with no-face frames between them are one closing run (EARs 0.20,
\* 0.18, 0.30 give one blink wherever no-face frames fall).
C25_NoFaceFrameIsTransparent ==
    /\ [][ (SampledStep /\ ~FaceStep) =>
               /\ counter' = counter /\ blink_count' = blink_count
               /\ ear_history' = ear_history
               /\ processed_frames' = processed_frames + 1 ]_vars
    /\ [](<<counter, blink_count>> = Debounce(ear_seq))
    /\ [](ear_seq = <<20, 18, 30>> => blink_count = 1)

\* a closed frame (counter 1), then a sampled frame without a face
C25_Witness ==
    /\ b_pc = "loop" /\ b_last = "noface"
    /\ ear_seq = <<20>> /\ counter = 1 /\ processed_frames = 2

\* closed, no face, closed, open: one blink
C25_WitnessBlink ==
    /\ b_pc = "done" /\ frame_interval = 1
    /\ ear_seq = <<20, 18, 30>> /\ processed_frames = 4 /\ frame_count = 4
    /\ blink_count = 1

\* C26: in every reachable state of analyze_blink
\* blink_count x (CONSEC_FRAMES + 1) + counter <= face frames so far
\* <= processed_frames <= max_frames; a run of closed-eye frames that is
\* still open when the video or the max_frames budget ends contributes no
\* blink to the result.
C26_BlinkBudget ==
    /\ blink_count * (2 + 1) + counter <= Len(ear_seq)
    /\ Len(ear_seq) <= processed_frames
    /\ processed_frames <= max_frames
    /\ (b_pc = "done" /\ b_result.success) =>
          /\ b_result.blink_count = blink_count
          /\ b_result.blink_count * (2 + 1) + counter <= Len(ear_seq)
          /\ ear_seq = <<30, 20, 18>> => b_result.blink_count = 0

\* the budget ends a closing run of two frames: no blink
C26_Witness ==
    /\ b_pc = "done" /\ b_last = "exit" /\ max_frames = 3
    /\ ear_seq = <<30, 20, 18>> /\ counter = 2
    /\ b_result.success /\ b_result.blink_count = 0

(***************************************************************************)
(* Claims about the correct count                                          *)
(***************************************************************************)
\* C27: in the emotion and texture evaluators correct = TP + TN after the
\* metrics loop, and in every family's evaluator correct is the number of
\* verdicts whose prediction is not none and equals the ground truth (a
\* prediction of none never counts as correct).
C27_CorrectIsTPplusTN ==
    Finished =>
        /\ summary.correct
              = Cardinality({i \in Indices(all_results) :
                                /\ all_results[i].prediction \in {"FAKE", "REAL"}
                                /\ all_results[i].prediction = all_results[i].ground_truth})
        /\ HasMatrix(family) =>
              summary.correct = summary.confusion_matrix.TP + summary.confusion_matrix.TN

C27_Witness ==
    /\ Finished /\ HasMatrix(family)
    /\ summary.correct = 2
    /\ summary.confusion_matrix.TP = 1 /\ summary.confusion_matrix.TN = 1
    /\ summary.confusion_matrix.FN = 1
    /\ \E i \in Indices(all_results) : all_results[i].prediction = None


\* C28: in the printed report a family's entry is non-null only if its data
\* was produced by the task of this run: it was parsed from the task's
\* stdout or loaded from a file written in this run, never from a report
\* file left over from an earlier run.
C28_EntryFromThisRun ==
    o_pc = "emitted" =>
        \A j \in 1..Len(printed) :
            printed[j].value # Null => printed[j].value.written = "fresh"


\* C29: analyze_headpose on an opened video succeeds whenever at least one
\* frame yielded a face; with exactly one face frame the speed sequence is
\* empty, speed_variance is nan, neither too_smooth_motion nor
\* jittery_motion fires, and the headpose wrapper predicts REAL with
\* confidence 0.9.
C29_SingleFaceFrameIsReal ==
    h_pc = "done" /\ h_opened =>
        /\ Len(pitch_vals) >= 1 => h_result.success
        /\ Len(pitch_vals) = 1 =>
              LET v == analyze_video_headpose(Returned(h_result)) IN
              /\ Speed(pitch_vals, yaw_vals, roll_vals) = <<>>
              /\ ~IsRat(h_result.speed_variance)
              /\ ~Has(h_result.reasons, "too_smooth_motion")
              /\ ~Has(h_result.reasons, "jittery_motion")
              /\ ~h_result.suspicious
              /\ v.prediction = "REAL"
              /\ v.confidence = <<90, 100>>
              /\ v.error = None

\* one face frame among several frames, the function has returned
C29_Witness ==
    /\ h_pc = "done" /\ h_opened
    /\ Len(pitch_vals) = 1 /\ total_frames >= 2
    /\ h_result.success /\ h_result.frames_analyzed = 1

\* several face frames, the function has returned with a flag
C29_WitnessMany ==
    /\ h_pc = "done" /\ h_opened
    /\ Len(pitch_vals) >= 3
    /\ h_result.success /\ h_result.suspicious

=============================================================================
